---- MODULE Spec2Model ----
(***************************************************************************)
(* Model of scripts/test-webhook.py: the Signer (compute_signature), the   *)
(* Payload Builder and Dispatcher (send_webhook), the Test Runner          *)
(* (run_tests) and the CLI Front-End (main).                               *)
(*                                                                         *)
(* Text is a sequence of Unicode code points, bytes are a sequence of      *)
(* integers 0..255.  Python's None is the value None below.                *)
(***************************************************************************)
EXTENDS Integers, Sequences, FiniteSets, TLC

\* Longest explanation / exception text drawn as an input.
MaxExplLen == 1
\* Topic ids drawn as inputs are 1..MaxTopic.
MaxTopic == 2

\* Python's None (no code point is negative, so no text equals it).
None == <<-1>>

\* Python truthiness of an Optional[str]: None and "" are falsy.
Truthy(x) == x # None /\ x # <<>>

\* the raw_content template up to {explanation} (code points)
RAW_PREFIX ==
    <<35, 35, 32, 81, 117, 101, 115, 116, 105, 111, 110, 10, 87, 104, 105,
    99, 104, 32, 111, 102, 32, 116, 104, 101, 32, 102, 111, 108, 108, 111,
    119, 105, 110, 103, 32, 105, 115, 32, 112, 97, 114, 116, 32, 111, 102,
    32, 116, 104, 101, 32, 66, 97, 115, 105, 115, 32, 97, 110, 100, 32, 80,
    117, 114, 112, 111, 115, 101, 32, 111, 102, 32, 116, 104, 101, 32, 65,
    109, 97, 116, 101, 117, 114, 32, 82, 97, 100, 105, 111, 32, 83, 101,
    114, 118, 105, 99, 101, 63, 10, 10, 35, 35, 32, 65, 110, 115, 119, 101,
    114, 32, 79, 112, 116, 105, 111, 110, 115, 10, 45, 32, 42, 42, 65, 41,
    42, 42, 32, 79, 112, 116, 105, 111, 110, 32, 65, 10, 45, 32, 42, 42,
    66, 41, 42, 42, 32, 79, 112, 116, 105, 111, 110, 32, 66, 10, 45, 32,
    42, 42, 67, 41, 42, 42, 32, 79, 112, 116, 105, 111, 110, 32, 67, 10,
    45, 32, 42, 42, 68, 41, 42, 42, 32, 79, 112, 116, 105, 111, 110, 32,
    68, 10, 10, 42, 42, 67, 111, 114, 114, 101, 99, 116, 32, 65, 110, 115,
    119, 101, 114, 58, 32, 67, 42, 42, 10, 10, 45, 45, 45, 10, 10, 35, 35,
    32, 69, 120, 112, 108, 97, 110, 97, 116, 105, 111, 110, 10>>

\* the raw_content template after {explanation} (code points)
RAW_SUFFIX ==
    <<10, 10, 45, 45, 45, 10, 95, 84, 104, 105, 115, 32, 116, 111, 112,
    105, 99, 32, 119, 97, 115, 32, 97, 117, 116, 111, 109, 97, 116, 105,
    99, 97, 108, 108, 121, 32, 99, 114, 101, 97, 116, 101, 100, 32, 116,
    111, 32, 102, 97, 99, 105, 108, 105, 116, 97, 116, 101, 32, 99, 111,
    109, 109, 117, 110, 105, 116, 121, 32, 100, 105, 115, 99, 117, 115,
    115, 105, 111, 110, 46, 95>>

\* 'test-secret-for-local-dev'
WEBHOOK_SECRET ==
    <<116, 101, 115, 116, 45, 115, 101, 99, 114, 101, 116, 45, 102, 111,
    114, 45, 108, 111, 99, 97, 108, 45, 100, 101, 118>>

\* 'sha256='
S_sha256_eq ==
    <<115, 104, 97, 50, 53, 54, 61>>

\* 'sha256=invalid'
S_sha256_invalid ==
    <<115, 104, 97, 50, 53, 54, 61, 105, 110, 118, 97, 108, 105, 100>>

\* 'test'
S_test ==
    <<116, 101, 115, 116>>

\* 'UPDATED: This is a new test explanation from the webhook!'
S_upd1 ==
    <<85, 80, 68, 65, 84, 69, 68, 58, 32, 84, 104, 105, 115, 32, 105, 115,
    32, 97, 32, 110, 101, 119, 32, 116, 101, 115, 116, 32, 101, 120, 112,
    108, 97, 110, 97, 116, 105, 111, 110, 32, 102, 114, 111, 109, 32, 116,
    104, 101, 32, 119, 101, 98, 104, 111, 111, 107, 33>>

\* 'T1A02 updated explanation!'
S_upd2 ==
    <<84, 49, 65, 48, 50, 32, 117, 112, 100, 97, 116, 101, 100, 32, 101,
    120, 112, 108, 97, 110, 97, 116, 105, 111, 110, 33>>

\* 'Invalid'
S_Invalid ==
    <<73, 110, 118, 97, 108, 105, 100>>

\* 'ignored'
S_ignored ==
    <<105, 103, 110, 111, 114, 101, 100>>

\* 'Cannot connect. Is Supabase running? Try: npm run supabase:functions'
S_cannot_connect ==
    <<67, 97, 110, 110, 111, 116, 32, 99, 111, 110, 110, 101, 99, 116, 46,
    32, 73, 115, 32, 83, 117, 112, 97, 98, 97, 115, 101, 32, 114, 117, 110,
    110, 105, 110, 103, 63, 32, 84, 114, 121, 58, 32, 110, 112, 109, 32,
    114, 117, 110, 32, 115, 117, 112, 97, 98, 97, 115, 101, 58, 102, 117,
    110, 99, 116, 105, 111, 110, 115>>

\* 'post'
S_post ==
    <<112, 111, 115, 116>>

\* 'id'
S_id ==
    <<105, 100>>

\* 'topic_id'
S_topic_id ==
    <<116, 111, 112, 105, 99, 95, 105, 100>>

\* 'post_number'
S_post_number ==
    <<112, 111, 115, 116, 95, 110, 117, 109, 98, 101, 114>>

\* 'raw'
S_raw ==
    <<114, 97, 119>>

\* 'cooked'
S_cooked ==
    <<99, 111, 111, 107, 101, 100>>

\* '<p>HTML content</p>'
S_cooked_val ==
    <<60, 112, 62, 72, 84, 77, 76, 32, 99, 111, 110, 116, 101, 110, 116,
    60, 47, 112, 62>>

\* 'username'
S_username ==
    <<117, 115, 101, 114, 110, 97, 109, 101>>

\* 'test_user'
S_test_user ==
    <<116, 101, 115, 116, 95, 117, 115, 101, 114>>

\* 'created_at'
S_created_at ==
    <<99, 114, 101, 97, 116, 101, 100, 95, 97, 116>>

\* '2024-01-01T00:00:00Z'
S_created_val ==
    <<50, 48, 50, 52, 45, 48, 49, 45, 48, 49, 84, 48, 48, 58, 48, 48, 58,
    48, 48, 90>>

\* 'updated_at'
S_updated_at ==
    <<117, 112, 100, 97, 116, 101, 100, 95, 97, 116>>

\* '2024-01-02T00:00:00Z'
S_updated_val ==
    <<50, 48, 50, 52, 45, 48, 49, 45, 48, 50, 84, 48, 48, 58, 48, 48, 58,
    48, 48, 90>>

\* 'error'
S_error ==
    <<101, 114, 114, 111, 114>>

\* 'status'
S_status ==
    <<115, 116, 97, 116, 117, 115>>

\* 'updated'
S_updated ==
    <<117, 112, 100, 97, 116, 101, 100>>

\* 'questionId'
S_questionId ==
    <<113, 117, 101, 115, 116, 105, 111, 110, 73, 100>>

\* 'T1A01'
S_T1A01 ==
    <<84, 49, 65, 48, 49>>

\* 'T1A02'
S_T1A02 ==
    <<84, 49, 65, 48, 50>>

\* 'T1A03'
S_T1A03 ==
    <<84, 49, 65, 48, 51>>

\* 'reason'
S_reason ==
    <<114, 101, 97, 115, 111, 110>>

\* 'Not a post_edited event'
S_not_edit ==
    <<78, 111, 116, 32, 97, 32, 112, 111, 115, 116, 95, 101, 100, 105, 116,
    101, 100, 32, 101, 118, 101, 110, 116>>

\* 'Invalid signature'
S_invalid_sig ==
    <<73, 110, 118, 97, 108, 105, 100, 32, 115, 105, 103, 110, 97, 116,
    117, 114, 101>>

\* 'previousLength'
S_previousLength ==
    <<112, 114, 101, 118, 105, 111, 117, 115, 76, 101, 110, 103, 116, 104>>

\* 'explanationLength'
S_explanationLength ==
    <<101, 120, 112, 108, 97, 110, 97, 116, 105, 111, 110, 76, 101, 110,
    103, 116, 104>>

\* 'Read timed out.'
S_read_timeout ==
    <<82, 101, 97, 100, 32, 116, 105, 109, 101, 100, 32, 111, 117, 116, 46>>

\* 'Expecting value: line 1 column 1 (char 0)'
S_decode_err ==
    <<69, 120, 112, 101, 99, 116, 105, 110, 103, 32, 118, 97, 108, 117,
    101, 58, 32, 108, 105, 110, 101, 32, 49, 32, 99, 111, 108, 117, 109,
    110, 32, 49, 32, 40, 99, 104, 97, 114, 32, 48, 41>>

\* '<html>Bad Gateway</html>'
S_html ==
    <<60, 104, 116, 109, 108, 62, 66, 97, 100, 32, 71, 97, 116, 101, 119,
    97, 121, 60, 47, 104, 116, 109, 108, 62>>

\* 'null'
S_null ==
    <<110, 117, 108, 108>>

\* "'latin-1' codec can't encode character"
S_encode_err ==
    <<39, 108, 97, 116, 105, 110, 45, 49, 39, 32, 99, 111, 100, 101, 99,
    32, 99, 97, 110, 39, 116, 32, 101, 110, 99, 111, 100, 101, 32, 99, 104,
    97, 114, 97, 99, 116, 101, 114>>

\* 'Connection refused'
S_conn_refused ==
    <<67, 111, 110, 110, 101, 99, 116, 105, 111, 110, 32, 114, 101, 102,
    117, 115, 101, 100>>

\* 'http://localhost:54321/functions/v1/discourse-webhook'
FUNCTION_URL ==
    <<104, 116, 116, 112, 58, 47, 47, 108, 111, 99, 97, 108, 104, 111, 115,
    116, 58, 53, 52, 51, 50, 49, 47, 102, 117, 110, 99, 116, 105, 111, 110,
    115, 47, 118, 49, 47, 100, 105, 115, 99, 111, 117, 114, 115, 101, 45,
    119, 101, 98, 104, 111, 111, 107>>

(***************************************************************************)
(* Text helpers.                                                           *)
(***************************************************************************)

\* One lowercase hexadecimal digit.
HexDigit(d) == IF d < 10 THEN 48 + d ELSE 87 + d

\* Four lowercase hexadecimal digits of c (0 <= c < 65536).
Hex4(c) ==
    <<HexDigit(c \div 4096), HexDigit((c \div 256) % 16),
      HexDigit((c \div 16) % 16), HexDigit(c % 16)>>

\* str(n) of an integer.
RECURSIVE IntStr(_)
IntStr(n) ==
    IF n < 0 THEN <<45>> \o IntStr(0 - n)
    ELSE IF n < 10 THEN <<48 + n>>
    ELSE IntStr(n \div 10) \o <<48 + (n % 10)>>

\* str.lower() on one code point (ASCII and Latin-1 letters).
LowerChar(c) ==
    IF c >= 65 /\ c <= 90 THEN c + 32
    ELSE IF c >= 192 /\ c <= 222 /\ c # 215 THEN c + 32
    ELSE c

\* str.lower()
Lower(s) == [k \in 1..Len(s) |-> LowerChar(s[k])]

\* Python's `sub in s` on text.
StrIn(sub, s) ==
    \E k \in 0..(Len(s) - Len(sub)) : SubSeq(s, k + 1, k + Len(sub)) = sub

\* A lone surrogate cannot be encoded as UTF-8 (UnicodeEncodeError).
IsSurrogate(c) == c >= 55296 /\ c <= 57343

Utf8Encodable(s) == \A k \in 1..Len(s) : ~IsSurrogate(s[k])

\* UTF-8 encoding of one code point of the Basic Multilingual Plane.
Utf8Char(c) ==
    IF c < 128 THEN <<c>>
    ELSE IF c < 2048 THEN <<192 + (c \div 64), 128 + (c % 64)>>
    ELSE <<224 + (c \div 4096), 128 + ((c \div 64) % 64), 128 + (c % 64)>>

\* str.encode("utf-8"), defined where Utf8Encodable holds.
RECURSIVE Utf8Encode(_)
Utf8Encode(s) ==
    IF Len(s) = 0 THEN <<>>
    ELSE IF Len(s) = 1 THEN Utf8Char(s[1])
    ELSE LET h == Len(s) \div 2
         IN Utf8Encode(SubSeq(s, 1, h)) \o Utf8Encode(SubSeq(s, h + 1, Len(s)))

\* The HTTP stack turns a str body into bytes as Latin-1 (http.client) or
\* as UTF-8 (urllib3 2.x), depending on the installed versions.
WireEncodings == {"latin-1", "utf-8"}

WireEncodable(s, enc) ==
    IF enc = "latin-1" THEN \A k \in 1..Len(s) : s[k] < 256
    ELSE Utf8Encodable(s)

WireEncode(s, enc) == IF enc = "latin-1" THEN s ELSE Utf8Encode(s)

(***************************************************************************)
(* JSON values and json.dumps (default separators, ensure_ascii=True).     *)
(***************************************************************************)

JNull == [t |-> "null", s |-> <<>>, n |-> 0, items |-> <<>>]
JStr(s) == [t |-> "str", s |-> s, n |-> 0, items |-> <<>>]
JNum(n) == [t |-> "num", s |-> <<>>, n |-> n, items |-> <<>>]
JArr(items) == [t |-> "arr", s |-> <<>>, n |-> 0, items |-> items]
\* An object keeps its members in insertion order; a member is <<key, value>>.
JObj(items) == [t |-> "obj", s |-> <<>>, n |-> 0, items |-> items]

IsDict(v) == v.t = "obj"

HasKey(v, key) == \E k \in 1..Len(v.items) : v.items[k][1] = key

\* dict.get(key, default)
DictGet(v, key, default) ==
    IF HasKey(v, key)
    THEN v.items[CHOOSE k \in 1..Len(v.items) : v.items[k][1] = key][2]
    ELSE default

\* EscapeChar with ensure_ascii=False: code points above '~' are kept.
EscapeChar_raw(c) ==
    IF c = 34 THEN <<92, 34>>
    ELSE IF c = 92 THEN <<92, 92>>
    ELSE IF c = 10 THEN <<92, 110>>
    ELSE IF c = 13 THEN <<92, 114>>
    ELSE IF c = 9 THEN <<92, 116>>
    ELSE IF c < 32 THEN <<92, 117>> \o Hex4(c)
    ELSE <<c>>

\* json.dumps escapes '"', '\', control characters and, with
\* ensure_ascii, every code point outside ' '..'~' as \uXXXX.
EscapeChar(c) ==
    IF c = 34 THEN <<92, 34>>
    ELSE IF c = 92 THEN <<92, 92>>
    ELSE IF c = 10 THEN <<92, 110>>
    ELSE IF c = 13 THEN <<92, 114>>
    ELSE IF c = 9 THEN <<92, 116>>
    ELSE IF c < 32 \/ c > 126 THEN <<92, 117>> \o Hex4(c)
    ELSE <<c>>

RECURSIVE EscapeStr(_)
EscapeStr(s) ==
    IF Len(s) = 0 THEN <<>>
    ELSE IF Len(s) = 1 THEN EscapeChar(s[1])
    ELSE LET h == Len(s) \div 2
         IN EscapeStr(SubSeq(s, 1, h)) \o EscapeStr(SubSeq(s, h + 1, Len(s)))

QuoteStr(s) == <<34>> \o EscapeStr(s) \o <<34>>

RECURSIVE JsonDumps(_)
RECURSIVE DumpItems(_, _, _)
\* The members from position k on, joined with ", "; keys are written for
\* an object only.
DumpItems(items, k, withKeys) ==
    IF k > Len(items) THEN <<>>
    ELSE (IF k > 1 THEN <<44, 32>> ELSE <<>>)
         \o (IF withKeys THEN QuoteStr(items[k][1]) \o <<58, 32>> ELSE <<>>)
         \o JsonDumps(items[k][2])
         \o DumpItems(items, k + 1, withKeys)

JsonDumps(v) ==
    CASE v.t = "null" -> S_null
      [] v.t = "str" -> QuoteStr(v.s)
      [] v.t = "num" -> IntStr(v.n)
      [] v.t = "arr" -> <<91>> \o DumpItems(v.items, 1, FALSE) \o <<93>>
      [] v.t = "obj" -> <<123>> \o DumpItems(v.items, 1, TRUE) \o <<125>>

(***************************************************************************)
(* Signer.                                                                 *)
(***************************************************************************)

\* The digest is modelled by a keyed rolling hash of the bytes, two nested
\* passes as in HMAC, 16 bits wide; hexdigest() writes it in lowercase hex.
RECURSIVE MixRange(_, _, _, _)
\* The bytes lo..hi folded into h, left to right.
MixRange(h, bytes, lo, hi) ==
    IF lo > hi \/ h < 0 THEN h
    ELSE IF lo = hi THEN (h * 31 + bytes[lo] + 1) % 65521
    ELSE LET mid == (lo + hi) \div 2
         IN MixRange(MixRange(h, bytes, lo, mid), bytes, mid + 1, hi)

Mix(h, bytes) == MixRange(h, bytes, 1, Len(bytes))

HmacSha256Hex(key, msg) ==
    LET inner == Mix(Mix(54, key), msg)
    IN Hex4(Mix(Mix(92, key), Hex4(inner)))

\* compute_signature raises UnicodeEncodeError when the payload text has no
\* UTF-8 encoding.
compute_signature_raises(payload, secret) ==
    ~Utf8Encodable(payload) \/ ~Utf8Encodable(secret)

compute_signature(payload, secret) ==
    S_sha256_eq \o HmacSha256Hex(Utf8Encode(secret), Utf8Encode(payload))

(***************************************************************************)
(* The receiver and the transport: what one requests.post call can do.     *)
(***************************************************************************)

\* Exceptions requests.post can raise: <<class, str(e)>>.  ConnectTimeout
\* is a subclass of requests.exceptions.ConnectionError, ReadTimeout and
\* the rest are not.
Exceptions ==
    { [kind |-> "raise", cls |-> "ConnectionError", msg |-> S_conn_refused,
       status_code |-> 0, fmt |-> "empty", json |-> JNull],
      [kind |-> "raise", cls |-> "ConnectTimeout", msg |-> S_read_timeout,
       status_code |-> 0, fmt |-> "empty", json |-> JNull],
      [kind |-> "raise", cls |-> "ReadTimeout", msg |-> S_read_timeout,
       status_code |-> 0, fmt |-> "empty", json |-> JNull],
      [kind |-> "raise", cls |-> "Exception", msg |-> S_ignored,
       status_code |-> 0, fmt |-> "empty", json |-> JNull] }

IsConnectionError(cls) == cls \in {"ConnectionError", "ConnectTimeout"}

Updated(questionId) ==
    JObj(<< <<S_status, JStr(S_updated)>>, <<S_questionId, JStr(questionId)>>,
            <<S_previousLength, JNum(10)>>, <<S_explanationLength, JNum(20)>> >>)

\* JSON documents the receiver may answer with.
JsonBodies ==
    { JObj(<<>>),
      Updated(S_T1A01),
      Updated(S_T1A02),
      JObj(<< <<S_status, JStr(S_ignored)>>, <<S_reason, JStr(S_not_edit)>> >>),
      JObj(<< <<S_error, JStr(S_invalid_sig)>> >>),
      JArr(<<>>),
      JStr(S_ignored) }

StatusCodes == {200, 401}

\* HTTP responses: a status code and a body that is empty, a JSON document
\* or text that is not JSON.
Responses ==
    { [kind |-> "response", cls |-> "", msg |-> <<>>, status_code |-> sc,
       fmt |-> "json", json |-> j] : sc \in StatusCodes, j \in JsonBodies }
    \cup
    { [kind |-> "response", cls |-> "", msg |-> <<>>, status_code |-> sc,
       fmt |-> f, json |-> JNull] : sc \in StatusCodes, f \in {"empty", "text"} }

Outcomes == Exceptions \cup Responses

\* Before any call of requests.post.
NoOutcome ==
    [kind |-> "none", cls |-> "", msg |-> <<>>, status_code |-> 0,
     fmt |-> "empty", json |-> JNull]

\* response.text
ResponseText(r) ==
    CASE r.fmt = "empty" -> <<>>
      [] r.fmt = "json" -> JsonDumps(r.json)
      [] r.fmt = "text" -> S_html

(***************************************************************************)
(* Payload Builder and Dispatcher: send_webhook.                           *)
(***************************************************************************)

raw_content(explanation) == RAW_PREFIX \o explanation \o RAW_SUFFIX

payload(explanation, topic_id, post_number) ==
    JObj(<< <<S_post,
              JObj(<< <<S_id, JNum(100)>>,
                      <<S_topic_id, JNum(topic_id)>>,
                      <<S_post_number, JNum(post_number)>>,
                      <<S_raw, JStr(raw_content(explanation))>>,
                      <<S_cooked, JStr(S_cooked_val)>>,
                      <<S_username, JStr(S_test_user)>>,
                      <<S_created_at, JStr(S_created_val)>>,
                      <<S_updated_at, JStr(S_updated_val)>> >>)>> >>)

\* The parameters of one call; the defaults of the signature.
Call(explanation, topic_id, post_number, event_type, event_name, custom_signature) ==
    [explanation |-> explanation, topic_id |-> topic_id,
     post_number |-> post_number, event_type |-> event_type,
     event_name |-> event_name, custom_signature |-> custom_signature]

NoRequest ==
    [url |-> <<>>, content_type |-> "", event_type |-> "", event_name |-> "",
     signature |-> <<>>, instance |-> "", data |-> <<>>]

ErrorResult(msg) == [status |-> 0, body |-> JObj(<< <<S_error, JStr(msg)>> >>)]

\* Dispatch with the except clauses in the other order: the generic
\* handler catches the connection errors too.
Dispatch_generic_first(outcome) ==
    IF outcome.kind = "raise"
    THEN ErrorResult(outcome.msg)
    ELSE IF ResponseText(outcome) # <<>>
         THEN IF outcome.fmt = "json"
              THEN [status |-> outcome.status_code, body |-> outcome.json]
              ELSE ErrorResult(S_decode_err)
         ELSE [status |-> outcome.status_code, body |-> JObj(<<>>)]

\* The result of the try block, given what requests.post did.
Dispatch(outcome) ==
    IF outcome.kind = "raise"
    THEN IF IsConnectionError(outcome.cls)
         THEN ErrorResult(S_cannot_connect)
         ELSE ErrorResult(outcome.msg)
    ELSE IF ResponseText(outcome) # <<>>
         THEN IF outcome.fmt = "json"
              THEN [status |-> outcome.status_code, body |-> outcome.json]
              ELSE ErrorResult(S_decode_err)
         ELSE [status |-> outcome.status_code, body |-> JObj(<<>>)]

\* send_webhook up to the try block: the serialized payload, the signature
\* and the request that requests.post is handed.  raised is TRUE when
\* computing the signature raises, encodable is FALSE when the HTTP stack
\* cannot turn the body into bytes (raised inside requests.post).
Prepare(call, enc) ==
    LET body == JsonDumps(payload(call.explanation, call.topic_id, call.post_number))
        computed == ~Truthy(call.custom_signature)
    IN  IF computed /\ compute_signature_raises(body, WEBHOOK_SECRET)
        THEN [raised |-> TRUE, encodable |-> FALSE, request |-> NoRequest]
        ELSE IF ~WireEncodable(body, enc)
        THEN [raised |-> FALSE, encodable |-> FALSE, request |-> NoRequest]
        ELSE [raised |-> FALSE, encodable |-> TRUE,
              request |-> [url |-> FUNCTION_URL,
                           content_type |-> "application/json",
                           event_type |-> call.event_type,
                           event_name |-> call.event_name,
                           signature |-> IF computed
                                         THEN compute_signature(body, WEBHOOK_SECRET)
                                         ELSE call.custom_signature,
                           instance |-> "https://forum.openhamprep.com",
                           data |-> WireEncode(body, enc)]]

\* The try block on a prepared request.  raised is TRUE when an exception
\* leaves send_webhook, attempts counts the calls of requests.post, sent is
\* TRUE when a POST was put on the wire.
Complete(prep, outcome) ==
    IF prep.raised
    THEN [raised |-> TRUE, attempts |-> 0, sent |-> FALSE,
          request |-> NoRequest, result |-> ErrorResult(<<>>)]
    ELSE IF ~prep.encodable
    THEN [raised |-> FALSE, attempts |-> 1, sent |-> FALSE,
          request |-> NoRequest, result |-> ErrorResult(S_encode_err)]
    ELSE [raised |-> FALSE, attempts |-> 1, sent |-> TRUE,
          request |-> prep.request, result |-> Dispatch(outcome)]

send_webhook(call, outcome, enc) == Complete(Prepare(call, enc), outcome)

(***************************************************************************)
(* Inputs.                                                                 *)
(***************************************************************************)

\* Code points of command-line text: 'a' and 'e' with an acute accent.
Chars == {97, 233}
\* A str passed by a Python caller may also hold a lone surrogate.
CharsAny == Chars \cup {56320}

TextsOver(alphabet) == UNION { [1..n -> alphabet] : n \in 0..MaxExplLen }

Topics == 1..MaxTopic

\* argparse's Namespace: explanation is None when the positional is absent.
\* Without --test every combination is drawn; with --test the other
\* arguments are not read, and are drawn absent or present together.
ArgSpace ==
    [explanation : {None} \cup TextsOver(Chars), topic : Topics,
     reply : BOOLEAN, test : {FALSE}, verbose : BOOLEAN]
    \cup
    { [explanation |-> IF given THEN S_test ELSE None,
       topic |-> IF given THEN MaxTopic ELSE 1,
       reply |-> given, test |-> TRUE, verbose |-> verbose] :
      given \in BOOLEAN, verbose \in BOOLEAN }

\* Parameters of a direct call of send_webhook.
CallSpace ==
    [explanation : TextsOver(CharsAny), topic_id : Topics,
     post_number : {1, 2}, event_type : {"post", "topic"},
     event_name : {"post_edited", "post_created"},
     custom_signature : {None, <<>>, S_sha256_invalid}]

(***************************************************************************)
(* Test Runner: the scenario table of run_tests.                           *)
(***************************************************************************)

Test(name, call, expected_status, expected_contains) ==
    [name |-> name, call |-> call, expected_status |-> expected_status,
     expected_contains |-> expected_contains]

tests ==
    << Test("Invalid signature rejected",
            Call(S_test, 1, 1, "post", "post_edited", S_sha256_invalid),
            401, S_Invalid),
       Test("Non-post event ignored",
            Call(S_test, 1, 1, "topic", "post_edited", None), 200, S_ignored),
       Test("post_created ignored",
            Call(S_test, 1, 1, "post", "post_created", None), 200, S_ignored),
       Test("Reply post ignored",
            Call(S_test, 1, 2, "post", "post_edited", None), 200, S_ignored),
       Test("Valid update to T1A01",
            Call(S_upd1, 1, 1, "post", "post_edited", None), 200, None),
       Test("Valid update to T1A02",
            Call(S_upd2, 2, 1, "post", "post_edited", None), 200, None) >>

\* status_ok that accepts every HTTP response.
status_ok_any_response(res, expected_status) == res.status # 0

status_ok(res, expected_status) == res.status = expected_status

content_ok(res, expected_contains) ==
    expected_contains = None
    \/ StrIn(Lower(expected_contains), Lower(JsonDumps(res.body)))

\* Seeded topic_id -> question_id.
SEEDED_TOPICS == <<S_T1A01, S_T1A02, S_T1A03>>

(***************************************************************************)
(* What an observer of the run records about each scenario's result.       *)
(***************************************************************************)

\* sub occurs in s, letter case ignored.
Occurs(sub, s) ==
    \E k \in 1..Len(s) :
        /\ k + Len(sub) - 1 <= Len(s)
        /\ \A j \in 1..Len(sub) : LowerChar(s[k + j - 1]) = LowerChar(sub[j])

\* The pass criterion: the status is the expected one and the expected
\* text, when there is one, occurs in the serialized body.
ScenarioPasses(res, t) ==
    /\ res.status = t.expected_status
    /\ t.expected_contains # None => Occurs(t.expected_contains, JsonDumps(res.body))

\* The response acknowledges an update of the given question.
Acknowledged(res, questionId) ==
    /\ res.status = 200
    /\ IsDict(res.body)
    /\ DictGet(res.body, S_status, JNull) = JStr(S_updated)
    /\ DictGet(res.body, S_questionId, JNull) = JStr(questionId)

\* The two end-to-end scenarios, "Valid update to ...".
UpdateScenarios == {5, 6}

(***************************************************************************)
(* State.                                                                  *)
(***************************************************************************)

VARIABLES
    pc,         \* "start", "run_tests", "call", "returned", "exited"
    args,       \* the parsed command line (or the parameters of a direct call)
    idx,        \* run_tests: position in the scenario table
    passed,     \* run_tests: the counter
    result,     \* the WebhookResult last returned by send_webhook
    ret,        \* the value run_tests returned: "none", "True", "False"
    calls,      \* the calls of send_webhook so far, in order
    posts,      \* the requests put on the wire so far, in order
    attempts,   \* the number of requests.post calls so far
    stdout,     \* what was printed: events [ev, a, b]
    exit_code,  \* the exit status of the process, -1 while it runs
    traceback,  \* TRUE when an exception was not caught
    outcome,    \* history: what the last requests.post did
    okCount,    \* history: scenarios whose result met the pass criterion
    ok200,      \* history: update scenarios answered with HTTP 200
    acked       \* history: update scenarios acknowledged for their question

vars == <<pc, args, idx, passed, result, ret, calls, posts, attempts,
          stdout, exit_code, traceback, outcome, okCount, ok200, acked>>

history == <<okCount, ok200, acked>>

NoResult == [status |-> -1, body |-> JNull]

Ev(ev, a, b) == [ev |-> ev, a |-> a, b |-> b]

Init ==
    /\ pc = "start"
    /\ args \in ArgSpace
    /\ idx = 0
    /\ passed = 0
    /\ result = NoResult
    /\ ret = "none"
    /\ calls = <<>>
    /\ posts = <<>>
    /\ attempts = 0
    /\ stdout = <<>>
    /\ exit_code = -1
    /\ traceback = FALSE
    /\ outcome = NoOutcome
    /\ okCount = 0
    /\ ok200 = {}
    /\ acked = {}

\* An uncaught exception: the interpreter prints the traceback and exits 1.
Uncaught ==
    /\ pc' = "exited"
    /\ exit_code' = 1
    /\ traceback' = TRUE

\* The effect of one call of send_webhook on the wire and on the call log.
Record(call, r, o) ==
    /\ outcome' = IF r.sent THEN o ELSE outcome
    /\ calls' = Append(calls, call)
    /\ posts' = IF r.sent THEN Append(posts, r.request) ELSE posts
    /\ attempts' = attempts + r.attempts

\* The history of scenario k, whose call returned res.
Observe(k, res) ==
    /\ okCount' = IF ScenarioPasses(res, tests[k]) THEN okCount + 1 ELSE okCount
    /\ ok200' = IF k \in UpdateScenarios /\ res.status = 200
                THEN ok200 \cup {k} ELSE ok200
    /\ acked' = IF k \in UpdateScenarios
                   /\ Acknowledged(res, SEEDED_TOPICS[tests[k].call.topic_id])
                THEN acked \cup {k} ELSE acked

(***************************************************************************)
(* run_tests.                                                              *)
(***************************************************************************)

\* One iteration of the loop over the scenario table.
RunTestsStep ==
    /\ pc = "run_tests"
    /\ idx <= Len(tests)
    /\ \E enc \in WireEncodings, t \in {tests[idx]} :
        \E prep \in {Prepare(t.call, enc)}, outcome_ \in Outcomes :
        \E r \in {Complete(prep, outcome_)} :
        LET res == r.result
        IN  /\ Record(t.call, r, outcome_)
            /\ IF r.raised
               THEN /\ Uncaught
                    /\ UNCHANGED <<idx, passed, result, stdout, history>>
               ELSE /\ result' = res
                    /\ Observe(idx, res)
                    /\ IF status_ok(res, t.expected_status)
                          /\ content_ok(res, t.expected_contains)
                       THEN IF ~IsDict(res.body)
                            THEN \* result["body"].get: AttributeError
                                 /\ stdout' = Append(stdout, Ev("pass", idx, 0))
                                 /\ Uncaught
                                 /\ UNCHANGED <<idx, passed>>
                            ELSE /\ stdout' =
                                      IF DictGet(res.body, S_status, JNull) = JStr(S_updated)
                                      THEN stdout \o <<Ev("pass", idx, 0), Ev("updated", idx, 0)>>
                                      ELSE Append(stdout, Ev("pass", idx, 0))
                                 /\ passed' = passed + 1
                                 /\ idx' = idx + 1
                                 /\ UNCHANGED <<pc, exit_code, traceback>>
                       ELSE /\ stdout' = Append(stdout, Ev("fail", idx, 0))
                            /\ idx' = idx + 1
                            /\ UNCHANGED <<passed, pc, exit_code, traceback>>
    /\ UNCHANGED <<args, ret>>

\* The end of run_tests and main's sys.exit on its value.
RunTestsReturn ==
    /\ pc = "run_tests"
    /\ idx > Len(tests)
    /\ stdout' = Append(stdout, Ev("results", passed, Len(tests)))
    /\ ret' = IF passed = Len(tests) THEN "True" ELSE "False"
    /\ exit_code' = IF passed = Len(tests) THEN 0 ELSE 1
    /\ pc' = "exited"
    /\ UNCHANGED <<args, idx, passed, result, calls, posts, attempts, traceback, outcome, history>>

(***************************************************************************)
(* main.                                                                   *)
(***************************************************************************)

\* --test: enter run_tests.
MainRunTests ==
    /\ pc = "start"
    /\ args.test
    /\ pc' = "run_tests"
    /\ idx' = 1
    /\ passed' = 0
    /\ stdout' = Append(stdout, Ev("suite", 0, 0))
    /\ UNCHANGED <<args, result, ret, calls, posts, attempts, exit_code, traceback, outcome, history>>

\* No explanation: print the help and exit 1.
MainHelp ==
    /\ pc = "start"
    /\ ~args.test
    /\ ~Truthy(args.explanation)
    /\ stdout' = Append(stdout, Ev("help", 0, 0))
    /\ exit_code' = 1
    /\ pc' = "exited"
    /\ UNCHANGED <<args, idx, passed, result, ret, calls, posts, attempts, traceback, outcome, history>>

\* The single send and its report.
MainSend ==
    /\ pc = "start"
    /\ ~args.test
    /\ Truthy(args.explanation)
    /\ \E enc \in WireEncodings, post_number \in {IF args.reply THEN 2 ELSE 1} :
        \E call \in {Call(args.explanation, args.topic, post_number,
                          "post", "post_edited", None)} :
        \E prep \in {Prepare(call, enc)}, outcome_ \in Outcomes :
        \E r \in {Complete(prep, outcome_)} :
        LET res == r.result
            sending == Ev("sending", args.topic, post_number)
        IN  /\ Record(call, r, outcome_)
            /\ IF r.raised
               THEN /\ Uncaught
                    /\ stdout' = Append(stdout, sending)
                    /\ UNCHANGED result
               ELSE /\ result' = res
                    /\ IF ~args.verbose /\ ~IsDict(res.body)
                       THEN \* body.get: AttributeError
                            /\ stdout' = stdout \o <<sending, Ev("response", res.status, 0)>>
                            /\ Uncaught
                       ELSE /\ stdout' = stdout \o <<sending, Ev("response", res.status, 0),
                                                     Ev("summary", 0, 0)>>
                            /\ pc' = "exited"
                            /\ exit_code' = 0
                            /\ UNCHANGED traceback
    /\ UNCHANGED <<args, idx, passed, ret, history>>

Next ==
    \/ MainRunTests
    \/ MainHelp
    \/ MainSend
    \/ RunTestsStep
    \/ RunTestsReturn

Spec == Init /\ [][Next]_vars

(***************************************************************************)
(* send_webhook called directly, for every combination of parameters.      *)
(***************************************************************************)

SendInit ==
    /\ pc = "call"
    /\ args \in CallSpace
    /\ idx = 0
    /\ passed = 0
    /\ result = NoResult
    /\ ret = "none"
    /\ calls = <<>>
    /\ posts = <<>>
    /\ attempts = 0
    /\ stdout = <<>>
    /\ exit_code = -1
    /\ traceback = FALSE
    /\ outcome = NoOutcome
    /\ okCount = 0
    /\ ok200 = {}
    /\ acked = {}

SendCall ==
    /\ pc = "call"
    /\ \E enc \in WireEncodings, outcome_ \in Outcomes :
        \E r \in {send_webhook(args, outcome_, enc)} :
            /\ Record(args, r, outcome_)
            /\ traceback' = r.raised
            /\ result' = IF r.raised THEN result ELSE r.result
    /\ pc' = "returned"
    /\ UNCHANGED <<args, idx, passed, ret, stdout, exit_code, history>>

SendNext == SendCall

SendSpec == SendInit /\ [][SendNext]_vars

(***************************************************************************)
(* Properties.                                                             *)
(***************************************************************************)

Range(seq) == { seq[k] : k \in 1..Len(seq) }

\* Scenario k was counted as passed: its pass line was printed and the
\* loop went on past it.
Counted(k) == idx > k /\ Ev("pass", k, 0) \in Range(stdout)

\* The call main makes in single-send mode for the parsed arguments.
SingleCall ==
    Call(args.explanation, args.topic, IF args.reply THEN 2 ELSE 1,
         "post", "post_edited", None)

\* C1: send_webhook never raises to its caller.  When the POST raised or the
\* response body was not JSON, the result is status 0 with body
\* {error: message}; the message is the fixed "Cannot connect ..." text
\* exactly when the exception is a connection error and str(e) otherwise.
\* Status 0 is returned only then; otherwise the status is the HTTP status
\* code of the response.
C1_FailuresBecomeStatus0 ==
    pc = "returned" =>
        LET failed == outcome.kind = "raise"
                      \/ (outcome.kind = "response" /\ outcome.fmt = "text")
            connection == outcome.kind = "raise"
                          /\ outcome.cls \in {"ConnectionError", "ConnectTimeout"}
            text == IF outcome.kind = "raise" THEN outcome.msg ELSE S_decode_err
        IN  /\ ~traceback
            /\ failed =>
                  /\ result.status = 0
                  /\ result.body =
                        JObj(<< <<S_error,
                                  JStr(IF connection THEN S_cannot_connect ELSE text)>> >>)
            /\ ~connection => result.body # JObj(<< <<S_error, JStr(S_cannot_connect)>> >>)
            /\ ~failed => result.status = outcome.status_code
            /\ result.status = 0 => failed

\* C1 witness: a read timeout came back as a status-0 result.
C1_Witness ==
    /\ pc = "returned"
    /\ outcome.cls = "ReadTimeout"
    /\ result = ErrorResult(S_read_timeout)

\* C2: without an override signature, the signature header is "sha256="
\* followed by the HMAC, keyed with WEBHOOK_SECRET, of the bytes that were
\* transmitted as the request body, so a verifier that recomputes the HMAC
\* over the received body accepts it; and the request is sent.
C2_SignatureCoversSentBytes ==
    pc = "returned" /\ args.custom_signature = None =>
        /\ Len(posts) = 1
        /\ posts[1].signature =
              S_sha256_eq \o HmacSha256Hex(Utf8Encode(WEBHOOK_SECRET), posts[1].data)

\* C2 witness: a computed signature was sent for an explanation with a
\* character outside ASCII.
C2_Witness ==
    /\ pc = "returned"
    /\ args.custom_signature = None
    /\ 233 \in Range(args.explanation)
    /\ Len(posts) = 1
    /\ posts[1].signature # S_sha256_invalid

\* C3: run_tests returns true if and only if every one of the six
\* scenarios met the pass criterion (status equal to the expected status
\* and, when given, the expected text in the serialized body, case
\* ignored); the printed count is the number of such scenarios and the
\* printed total is 6.
C3_ReturnsTrueIffAllPass ==
    pc = "exited" /\ args.test =>
        /\ ret = "True" <=> okCount = 6
        /\ Ev("results", okCount, 6) \in Range(stdout)

\* C4: with --test the single-send path is never taken, and the exit code
\* is 0 if all scenarios passed and 1 otherwise.
C4_TestExitCode ==
    args.test =>
        /\ Ev("sending", args.topic, IF args.reply THEN 2 ELSE 1) \notin Range(stdout)
        /\ \A k \in 1..Len(calls) : calls[k] = tests[k].call
        /\ pc = "exited" => exit_code = (IF okCount = 6 THEN 0 ELSE 1)

\* C5: without --test a webhook is dispatched if and only if an explanation
\* was supplied on the command line, the empty string included: with none,
\* help is printed, the exit code is 1 and there is no network call; with
\* one, there is exactly one call of send_webhook, carrying the explanation,
\* --topic and post_number 2 with --reply and 1 without.
C5_DispatchIffExplanationGiven ==
    pc = "exited" /\ ~args.test =>
        IF args.explanation = None
        THEN /\ calls = <<>>
             /\ attempts = 0
             /\ exit_code = 1
             /\ Ev("help", 0, 0) \in Range(stdout)
        ELSE /\ calls = <<SingleCall>>
             /\ attempts = 1

\* C6: in single-send mode the exit code is 0 for every result of
\* send_webhook, and the run ends with the printed summary.
C6_SingleSendExitsZero ==
    pc = "exited" /\ ~args.test /\ calls # <<>> =>
        /\ exit_code = 0
        /\ Ev("summary", 0, 0) \in Range(stdout)

\* C7: every call of send_webhook makes exactly one POST attempt; the test
\* suite makes its calls in table order, each after the previous scenario
\* was evaluated, and a run of the suite makes exactly six.
C7_OnePostPerCallSixPerSuite ==
    /\ attempts = Len(calls)
    /\ args.test =>
          /\ \A k \in 1..Len(calls) : calls[k] = tests[k].call
          /\ pc = "run_tests" => Len(calls) = idx - 1
          /\ pc = "exited" => attempts = 6

\* C8 as stated: an update scenario is counted as passed only when the
\* response is HTTP 200 with status "updated" and the questionId of the
\* scenario's topic, so when run_tests returns true both updates were
\* acknowledged.
C8_PassedOnlyWhenAcknowledged ==
    /\ \A k \in UpdateScenarios : Counted(k) => k \in acked
    /\ ret = "True" => acked = UpdateScenarios

\* C8 amended: an update scenario is counted as passed only when the
\* result's status is 200, whatever the body; when run_tests returns true
\* both update requests were answered with HTTP 200.
C8_PassedOnlyWhen200 ==
    /\ \A k \in UpdateScenarios : Counted(k) => k \in ok200
    /\ ret = "True" => ok200 = UpdateScenarios

\* C8 witness: run_tests returned true although an update was not
\* acknowledged.
C8_Witness ==
    /\ ret = "True"
    /\ ok200 = UpdateScenarios
    /\ acked # UpdateScenarios

\* C9: when the caller supplies an override signature, whatever string it
\* is, the signature header carries exactly that value.
C9_OverrideIsSent ==
    pc = "returned" /\ args.custom_signature # None =>
        /\ Len(posts) = 1
        /\ posts[1].signature = args.custom_signature

\* C10: whatever the receiver answers, the body of the result is a JSON
\* object, and neither run_tests nor main ends by an uncaught exception.
C10_BodyIsObjectNoTraceback ==
    /\ result # NoResult => IsDict(result.body)
    /\ ~traceback

====
